---- MODULE Spec2Model ----
(***************************************************************************)
(* Model of the realtime voice-chat client.                                *)
(*                                                                         *)
(*  - App (src/client/components/App.jsx): session bootstrap               *)
(*    (startSession and its eight awaits), stopSession, sendClientEvent,   *)
(*    sendTextMessage, the data-channel listeners installed by             *)
(*    useEffect([dataChannel]) and pc.ontrack.                             *)
(*  - ThreeAnimation (src/client/components/ThreeAnimation.jsx and the two *)
(*    other revisions of that file, src/unnamed/part_000 and part_001):    *)
(*    the effect keyed on [analyzer], its animate loop and its cleanup.    *)
(*                                                                         *)
(* The k-th call of startSession creates peer connection k and data        *)
(* channel k, so sessions, connections and channels share the index set    *)
(* Sessions.  React state is read through the closure of the latest        *)
(* render: a state setter, the re-render and the effects it triggers are   *)
(* one step.                                                               *)
(***************************************************************************)
EXTENDS Integers, Sequences, FiniteSets, TLC

\* ------------------------------------------------------------------ bounds
MaxSessions == 2     \* calls of startSession
MaxEvents == 3       \* entries of the event log
MaxWire == 4         \* messages that cross one channel
MaxUuid == 3         \* calls of crypto.randomUUID
MaxTracks == 1       \* inbound tracks (pc.ontrack)
NumBins == 2         \* frequencyBinCount of the model's analysers

Sessions == 1..MaxSessions
Null == 0

\* ------------------------------------------------------------- JS values
\* A value of the event_id property: undefined, the string "" (<<"str",0>>),
\* a non-empty caller string (<<"str",k>>, k > 0) or a random UUID.
Undefined == <<"undefined", 0>>
EmptyString == <<"str", 0>>
CallerId == <<"str", 1>>
Uuid(n) == <<"uuid", n>>

\* JavaScript truthiness of an event_id value, as `||` tests it.
Truthy(v) == v # Undefined /\ v # EmptyString

Msg(t, p, id) == [type |-> t, payload |-> p, event_id |-> id]

\* JSON.stringify: the text names the type and the payload, and the event_id
\* only when the property is defined (undefined properties are omitted).
Stringify(m) ==
    IF m.event_id = Undefined THEN <<m.type, m.payload>>
    ELSE <<m.type, m.payload, m.event_id>>

\* JSON.parse of such a text.
Parse(w) ==
    IF Len(w) = 2 THEN Msg(w[1], w[2], Undefined)
    ELSE Msg(w[1], w[2], w[3])

\* The objects built by the handlers.
updateEvent == Msg("session.update", "voice=ash", Undefined)
greetingEvent == Msg("response.create", "instructions=greeting", Undefined)
textEvent(text) == Msg("conversation.item.create", text, Undefined)
responseCreate == Msg("response.create", "", Undefined)

\* Inputs: what the controls pass to sendClientEvent and sendTextMessage,
\* and what the server sends.
UiMessages ==
    { Msg("response.create", "", id) : id \in {Undefined, EmptyString, CallerId} }
Texts == {"hello"}
ServerWires == { <<"response.done", "", <<"str", 2>>>> }

VARIABLES
    isSessionActive,   \* useState(false)
    events,            \* useState([]): newest first
    dataChannel,       \* useState(null): Null or a channel
    peerConnection,    \* useRef(null).current: Null or a connection
    analyzer,          \* useState(null): Null or the number of the analyser
    sess,              \* position of each startSession call
    failedAt,          \* the await at which the call was rejected, or "none"
    calls,             \* per call: the external requests it has issued, in order
    pcState,           \* RTCPeerConnection of each call: "none", "open", "closed"
    dcState,           \* RTCDataChannel.readyState of each call ("none": not created)
    listeners,         \* channels that carry the 'message' and 'open' listeners
    wire,              \* per channel: what crossed it, [dir, data], oldest first
    nextUuid,          \* number of crypto.randomUUID calls so far
    lastOp,            \* the handler that ran last: its argument, what it threw and logged
    stopped,           \* history: the calls of startSession made before the latest stopSession
    variant,           \* which revision of ThreeAnimation.jsx is built
    mounted,           \* ThreeAnimation is mounted
    effects,           \* the runs of its effect: [analyzer, cleaned, scale]
    scheduled,         \* the runs whose animate is queued with requestAnimationFrame
    uFrequency,        \* uniformsRef.current.u_frequency.value, a fraction
    frame              \* the latest animate call: its run and the freqData it read

vars == <<isSessionActive, events, dataChannel, peerConnection, analyzer, sess,
          failedAt, calls, pcState, dcState, listeners, wire, nextUuid,
          lastOp, stopped, variant, mounted, effects, scheduled, uFrequency, frame>>

vizVars == <<variant, mounted, effects, scheduled, uFrequency, frame>>
appVars == <<isSessionActive, events, dataChannel, peerConnection, analyzer, sess,
             failedAt, calls, pcState, dcState, listeners, wire, nextUuid, lastOp,
             stopped>>

appState == <<isSessionActive, events, dataChannel, peerConnection, analyzer>>

Op(name) == [op |-> name, threw |-> FALSE, errors |-> 0, arg |-> updateEvent,
             obj |-> updateEvent, ch |-> Null]

\* ------------------------------------------------------------- fractions
\* JavaScript numbers are modelled as exact fractions num/den, den > 0.
Rat(n, d) == [num |-> n, den |-> d]
One == Rat(1, 1)
Zero == Rat(0, 1)
RatEq(a, b) == a.num * b.den = b.num * a.den
RatLe(a, b) == a.num * b.den <= b.num * a.den

\* The revisions of ThreeAnimation.jsx in the repository.  App.jsx line 6
\* imports "./ThreeAnimation".
Revisions == {"ThreeAnimation.jsx", "part_000", "part_001"}

\* The bytes getByteFrequencyData may write into one bin.
ByteSamples == {0, 1, 255}
Buffers == [1..NumBins -> ByteSamples]

\* The state once App and ThreeAnimation have rendered for the first time: the
\* effect of ThreeAnimation has run with analyzer = null, and its call of
\* animate() has requested the next frame.
InitApp ==
    /\ isSessionActive = FALSE
    /\ events = <<>>
    /\ dataChannel = Null
    /\ peerConnection = Null
    /\ analyzer = Null
    /\ sess = [i \in Sessions |-> "idle"]
    /\ failedAt = [i \in Sessions |-> "none"]
    /\ calls = [i \in Sessions |-> <<>>]
    /\ pcState = [i \in Sessions |-> "none"]
    /\ dcState = [i \in Sessions |-> "none"]
    /\ listeners = {}
    /\ wire = [i \in Sessions |-> <<>>]
    /\ nextUuid = 0
    /\ lastOp = Op("init")
    /\ stopped = {}

InitViz ==
    /\ mounted = TRUE
    /\ effects = <<[analyzer |-> Null, cleaned |-> FALSE, scale |-> One]>>
    /\ scheduled = {1}
    /\ uFrequency = Zero
    /\ frame = [e |-> 1, freqData |-> <<>>]

Init == InitApp /\ InitViz /\ variant = "ThreeAnimation.jsx"

InitRevisions == InitApp /\ InitViz /\ variant \in Revisions

\* ------------------------------------------------- startSession (App.jsx 20-79)
\* The requests one call of startSession issues, in program order.
BootstrapOrder ==
    << "GET /token", "tokenResponse.json", "new RTCPeerConnection", "getUserMedia",
       "createDataChannel", "createOffer", "setLocalDescription", "POST sdp",
       "sdpResponse.text", "setRemoteDescription" >>

\* The suspension points of startSession.
Awaits ==
    { "await_token", "await_json", "await_media", "await_offer", "await_local",
      "await_post", "await_text", "await_remote" }

Issue(i, reqs) == calls' = [calls EXCEPT ![i] = @ \o reqs]
Goto(i, pos) == sess' = [sess EXCEPT ![i] = pos]

\* The click on "start": the call runs to its first await, fetch("/token").
\* Calls are numbered in the order in which they are made.
startSession(i) ==
    /\ sess[i] = "idle"
    /\ \A j \in Sessions : j < i => sess[j] # "idle"
    /\ Issue(i, <<"GET /token">>)
    /\ Goto(i, "await_token")
    /\ lastOp' = [Op("startSession") EXCEPT !.ch = i]
    /\ UNCHANGED <<vizVars, stopped, appState, failedAt, pcState, dcState, listeners, wire, nextUuid>>

\* fetch("/token") resolved: line 23 calls tokenResponse.json().
startSession_afterFetchToken(i) ==
    /\ sess[i] = "await_token"
    /\ Issue(i, <<"tokenResponse.json">>)
    /\ Goto(i, "await_json")
    /\ lastOp' = [Op("startSession") EXCEPT !.ch = i]
    /\ UNCHANGED <<vizVars, stopped, appState, failedAt, pcState, dcState, listeners, wire, nextUuid>>

\* tokenResponse.json() resolved: line 24 reads data.client_secret.value (a
\* TypeError when the body has no client_secret), lines 27-44 construct the
\* connection and install ontrack, line 47 asks for the microphone.
startSession_afterJson(i, hasSecret) ==
    /\ sess[i] = "await_json"
    /\ IF hasSecret
       THEN /\ pcState' = [pcState EXCEPT ![i] = "open"]
            /\ Issue(i, <<"new RTCPeerConnection", "getUserMedia">>)
            /\ Goto(i, "await_media")
            /\ lastOp' = [Op("startSession") EXCEPT !.ch = i]
            /\ UNCHANGED failedAt
       ELSE /\ Goto(i, "failed")
            /\ failedAt' = [failedAt EXCEPT ![i] = "client_secret"]
            /\ lastOp' = [Op("startSession") EXCEPT !.ch = i, !.threw = TRUE]
            /\ UNCHANGED <<pcState, calls>>
    /\ UNCHANGED <<vizVars, stopped, appState, dcState, listeners, wire, nextUuid>>

\* useEffect([dataChannel]) (lines 130-166) for a new value of dataChannel: a
\* non-null channel gets the two listeners; nothing is ever removed.
EffectDataChannel(dc) == listeners' = IF dc # Null THEN listeners \cup {dc} ELSE listeners

\* getUserMedia resolved: lines 48-52 add the track, create the data channel and
\* store it with setDataChannel (the effect runs on the re-render); line 55
\* calls createOffer.
startSession_afterGetUserMedia(i) ==
    /\ sess[i] = "await_media"
    /\ dcState' = [dcState EXCEPT ![i] = "connecting"]
    /\ dataChannel' = i
    /\ EffectDataChannel(i)
    /\ Issue(i, <<"createDataChannel", "createOffer">>)
    /\ Goto(i, "await_offer")
    /\ lastOp' = [Op("startSession") EXCEPT !.ch = i]
    /\ UNCHANGED <<vizVars, stopped, isSessionActive, events, peerConnection, analyzer, failedAt,
                   pcState, wire, nextUuid>>

\* createOffer resolved: line 56.
startSession_afterCreateOffer(i) ==
    /\ sess[i] = "await_offer"
    /\ Issue(i, <<"setLocalDescription">>)
    /\ Goto(i, "await_local")
    /\ lastOp' = [Op("startSession") EXCEPT !.ch = i]
    /\ UNCHANGED <<vizVars, stopped, appState, failedAt, pcState, dcState, listeners, wire, nextUuid>>

\* setLocalDescription resolved: lines 59-68 POST the offer.
startSession_afterSetLocalDescription(i) ==
    /\ sess[i] = "await_local"
    /\ Issue(i, <<"POST sdp">>)
    /\ Goto(i, "await_post")
    /\ lastOp' = [Op("startSession") EXCEPT !.ch = i]
    /\ UNCHANGED <<vizVars, stopped, appState, failedAt, pcState, dcState, listeners, wire, nextUuid>>

\* The POST resolved: line 73 reads the body.
startSession_afterPost(i) ==
    /\ sess[i] = "await_post"
    /\ Issue(i, <<"sdpResponse.text">>)
    /\ Goto(i, "await_text")
    /\ lastOp' = [Op("startSession") EXCEPT !.ch = i]
    /\ UNCHANGED <<vizVars, stopped, appState, failedAt, pcState, dcState, listeners, wire, nextUuid>>

\* The body was read: line 75.
startSession_afterText(i) ==
    /\ sess[i] = "await_text"
    /\ Issue(i, <<"setRemoteDescription">>)
    /\ Goto(i, "await_remote")
    /\ lastOp' = [Op("startSession") EXCEPT !.ch = i]
    /\ UNCHANGED <<vizVars, stopped, appState, failedAt, pcState, dcState, listeners, wire, nextUuid>>

\* setRemoteDescription resolved: line 78 keeps the connection in the ref.
startSession_afterSetRemoteDescription(i) ==
    /\ sess[i] = "await_remote"
    /\ peerConnection' = i
    /\ Goto(i, "done")
    /\ lastOp' = [Op("startSession") EXCEPT !.ch = i]
    /\ UNCHANGED <<vizVars, stopped, isSessionActive, events, dataChannel, analyzer, failedAt, calls,
                   pcState, dcState, listeners, wire, nextUuid>>

\* Variant of the rejection in which the error is swallowed (a try/catch around
\* the await): the call goes on from the same suspension point.
startSession_rejected_swallowed(i) ==
    /\ sess[i] \in Awaits
    /\ failedAt[i] = "none"
    /\ failedAt' = [failedAt EXCEPT ![i] = sess[i]]
    /\ lastOp' = [Op("startSession") EXCEPT !.ch = i, !.threw = TRUE]
    /\ UNCHANGED <<vizVars, stopped, appState, sess, calls, pcState, dcState, listeners,
                   wire, nextUuid>>

\* The promise awaited at the current suspension point rejects (network error,
\* denied microphone, unusable answer): nothing catches it, the async function
\* ends there.
startSession_rejected(i) ==
    /\ sess[i] \in Awaits
    /\ failedAt' = [failedAt EXCEPT ![i] = sess[i]]
    /\ Goto(i, "failed")
    /\ lastOp' = [Op("startSession") EXCEPT !.ch = i, !.threw = TRUE]
    /\ UNCHANGED <<vizVars, stopped, appState, calls, pcState, dcState, listeners, wire, nextUuid>>

Bootstrap ==
    \E i \in Sessions :
        \/ startSession(i)
        \/ startSession_afterFetchToken(i)
        \/ \E hasSecret \in BOOLEAN : startSession_afterJson(i, hasSecret)
        \/ startSession_afterGetUserMedia(i)
        \/ startSession_afterCreateOffer(i)
        \/ startSession_afterSetLocalDescription(i)
        \/ startSession_afterPost(i)
        \/ startSession_afterText(i)
        \/ startSession_afterSetRemoteDescription(i)
        \/ startSession_rejected(i)

\* --------------------------------------------------- RTCPeerConnection, RTCDataChannel
\* RTCDataChannel.close(): a channel that is not closed becomes closed.
CloseChannel(dcs, d) == IF d # Null /\ dcs[d] # "none" THEN [dcs EXCEPT ![d] = "closed"] ELSE dcs

\* ------------------------------------------------ sendClientEvent (App.jsx 96-107)
\* What a handler has done so far: the state it shares with the calls it makes,
\* the console.error lines it has written and whether it has thrown.
Frame ==
    [events |-> events, wire |-> wire, nextUuid |-> nextUuid,
     consoleErrors |-> 0, dcState |-> dcState, threw |-> FALSE,
     obj |-> updateEvent]

Prepend(log, m, d) == <<[msg |-> m, via |-> d]>> \o log
Cross(w, d, dir, data) == [w EXCEPT ![d] = Append(@, [dir |-> dir, data |-> data])]

\* Variant of sendClientEvent that overwrites the caller's event_id with a
\* fresh one (line 98 without the `message.event_id ||`).
sendClientEvent_alwaysAssign(f, dc, message) ==
    IF f.threw THEN f
    ELSE IF dc # Null
    THEN LET n == f.nextUuid + 1
             m == [message EXCEPT !.event_id = Uuid(n)]
         IN  IF f.dcState[dc] = "open"
             THEN [f EXCEPT !.nextUuid = n, !.obj = m,
                            !.wire = Cross(@, dc, "out", Stringify(m)),
                            !.events = Prepend(@, m, dc)]
             ELSE [f EXCEPT !.nextUuid = n, !.obj = m, !.threw = TRUE]
    ELSE [f EXCEPT !.consoleErrors = @ + 1, !.obj = message]

\* Variant of sendClientEvent that records the message before it looks for the
\* channel (line 100 moved out of the if).
sendClientEvent_logsWithoutChannel(f, dc, message) ==
    IF f.threw THEN f
    ELSE IF dc # Null
    THEN LET fresh == ~Truthy(message.event_id)
             n == IF fresh THEN f.nextUuid + 1 ELSE f.nextUuid
             m == [message EXCEPT !.event_id = IF fresh THEN Uuid(n) ELSE @]
         IN  IF f.dcState[dc] = "open"
             THEN [f EXCEPT !.nextUuid = n, !.obj = m,
                            !.wire = Cross(@, dc, "out", Stringify(m)),
                            !.events = Prepend(@, m, dc)]
             ELSE [f EXCEPT !.nextUuid = n, !.obj = m, !.threw = TRUE]
    ELSE [f EXCEPT !.consoleErrors = @ + 1, !.obj = message,
                   !.events = Prepend(@, message, dc)]

\* sendClientEvent(message) in the render whose dataChannel is dc.  Line 98
\* writes event_id into the caller's object (f.obj is that object afterwards);
\* RTCDataChannel.send throws InvalidStateError unless readyState is "open",
\* and then line 100 is not reached.
sendClientEvent(f, dc, message) ==
    IF f.threw THEN f
    ELSE IF dc # Null
    THEN LET fresh == ~Truthy(message.event_id)
             n == IF fresh THEN f.nextUuid + 1 ELSE f.nextUuid
             m == [message EXCEPT !.event_id = IF fresh THEN Uuid(n) ELSE @]
         IN  IF f.dcState[dc] = "open"
             THEN [f EXCEPT !.nextUuid = n, !.obj = m,
                            !.wire = Cross(@, dc, "out", Stringify(m)),
                            !.events = Prepend(@, m, dc)]
             ELSE [f EXCEPT !.nextUuid = n, !.obj = m, !.threw = TRUE]
    ELSE [f EXCEPT !.consoleErrors = @ + 1, !.obj = message]

\* The bounds of the model, as a guard on what a handler leaves behind.
WithinBounds(f) ==
    /\ Len(f.events) <= MaxEvents
    /\ \A d \in Sessions : Len(f.wire[d]) <= MaxWire
    /\ f.nextUuid <= MaxUuid

Commit(f) ==
    /\ WithinBounds(f)
    /\ events' = f.events
    /\ wire' = f.wire
    /\ nextUuid' = f.nextUuid

\* The controls call sendClientEvent(message).
SendClientEvent(message) ==
    LET f == sendClientEvent(Frame, dataChannel, message)
    IN  /\ Commit(f)
        /\ lastOp' = [op |-> "sendClientEvent", threw |-> f.threw,
                      errors |-> f.consoleErrors, arg |-> message,
                      obj |-> f.obj, ch |-> dataChannel]
        /\ UNCHANGED <<vizVars, stopped, isSessionActive, dataChannel, peerConnection, analyzer, sess,
                       failedAt, calls, pcState, dcState, listeners>>

\* ------------------------------------------------ sendTextMessage (App.jsx 110-127)
sendTextMessage(f, dc, text) ==
    sendClientEvent(sendClientEvent(f, dc, textEvent(text)), dc, responseCreate)

SendTextMessage(text) ==
    LET f == sendTextMessage(Frame, dataChannel, text)
    IN  /\ Commit(f)
        /\ lastOp' = [op |-> "sendTextMessage", threw |-> f.threw,
                      errors |-> f.consoleErrors,
                      arg |-> textEvent(text), obj |-> f.obj, ch |-> dataChannel]
        /\ UNCHANGED <<vizVars, stopped, isSessionActive, dataChannel, peerConnection, analyzer, sess,
                       failedAt, calls, pcState, dcState, listeners>>

\* ----------------------------------------------------- stopSession (App.jsx 82-93)
\* RTCPeerConnection.close() also closes the data channels of the connection.
stopSession ==
    LET dcs1 == CloseChannel(dcState, dataChannel)
        dcs2 == CloseChannel(dcs1, peerConnection)
    IN  /\ dcState' = dcs2
        /\ pcState' = IF peerConnection # Null
                      THEN [pcState EXCEPT ![peerConnection] = "closed"]
                      ELSE pcState
        /\ isSessionActive' = FALSE
        /\ dataChannel' = Null
        /\ EffectDataChannel(Null)
        /\ peerConnection' = Null
        /\ lastOp' = [Op("stopSession") EXCEPT !.ch = dataChannel]
        /\ stopped' = {i \in Sessions : sess[i] # "idle"}
        /\ UNCHANGED <<vizVars, events, analyzer, sess, failedAt, calls, wire, nextUuid>>

\* ------------------------------------- the listeners of useEffect (App.jsx 130-166)
\* The raw dataChannel.send of line 163.
rawSend(f, dc, message) ==
    IF f.threw THEN f
    ELSE IF f.dcState[dc] = "open"
    THEN [f EXCEPT !.wire = Cross(@, dc, "out", Stringify(message))]
    ELSE [f EXCEPT !.threw = TRUE]

\* Variant of the 'open' listener that sends the greeting request first.
onOpen_greetingFirst(f, dc) ==
    sendClientEvent(rawSend([f EXCEPT !.events = <<>>], dc, greetingEvent), dc,
                    updateEvent)

\* The 'open' listener of channel dc (lines 138-164); the sendClientEvent it
\* calls is the one of the render in which dataChannel was dc.
onOpen(f, dc) ==
    rawSend(sendClientEvent([f EXCEPT !.events = <<>>], dc, updateEvent), dc,
            greetingEvent)

\* The channel opens: the browser sets readyState and fires 'open'.  The
\* transport is up only after the remote description has been applied.
ChannelOpen(d) ==
    /\ dcState[d] = "connecting"
    /\ pcState[d] = "open"
    /\ sess[d] = "done"
    /\ d \in listeners
    /\ LET f == onOpen([Frame EXCEPT !.dcState[d] = "open"], d)
       IN  /\ Commit(f)
           /\ dcState' = f.dcState
           /\ lastOp' = [op |-> "open", threw |-> f.threw,
                         errors |-> f.consoleErrors, arg |-> updateEvent,
                         obj |-> f.obj, ch |-> d]
    /\ isSessionActive' = TRUE
    /\ UNCHANGED <<vizVars, stopped, dataChannel, peerConnection, analyzer, sess, failedAt, calls,
                   pcState, listeners>>

\* The 'message' listener (lines 133-135).
onMessage(f, dc, data) == [f EXCEPT !.events = Prepend(@, Parse(data), dc)]

\* The server sends a message on an open channel.
ChannelMessage(d, data) ==
    /\ dcState[d] = "open"
    /\ d \in listeners
    /\ Commit(onMessage([Frame EXCEPT !.wire = Cross(@, d, "in", data)], d, data))
    /\ lastOp' = [op |-> "message", threw |-> FALSE, errors |-> 0, arg |-> Parse(data),
                  obj |-> Parse(data), ch |-> d]
    /\ UNCHANGED <<vizVars, stopped, isSessionActive, dataChannel, peerConnection, analyzer, sess,
                   failedAt, calls, pcState, dcState, listeners>>

\* The remote side closes the channel, or the connection fails: readyState
\* becomes "closed"; the application has no 'close' listener.
RemoteClose(d) ==
    /\ dcState[d] \in {"connecting", "open"}
    /\ sess[d] = "done"
    /\ dcState' = [dcState EXCEPT ![d] = "closed"]
    /\ lastOp' = [Op("close") EXCEPT !.ch = d]
    /\ UNCHANGED <<vizVars, stopped, appState, sess, failedAt, calls, pcState, listeners, wire,
                   nextUuid>>

\* pc.ontrack (lines 30-44): a new analyser replaces the held one.  Track
\* events fire while the remote description is applied and afterwards.
ontrack(i) ==
    /\ pcState[i] = "open"
    /\ sess[i] \in {"await_remote", "done"}
    /\ analyzer < MaxTracks
    /\ analyzer' = analyzer + 1
    /\ lastOp' = [Op("ontrack") EXCEPT !.ch = i]
    /\ UNCHANGED <<vizVars, stopped, isSessionActive, events, dataChannel, peerConnection, sess,
                   failedAt, calls, pcState, dcState, listeners, wire, nextUuid>>

Handlers ==
    \/ stopSession
    \/ \E message \in UiMessages : SendClientEvent(message)
    \/ \E text \in Texts : SendTextMessage(text)

Channel ==
    \E d \in Sessions :
        \/ ChannelOpen(d)
        \/ \E data \in ServerWires : ChannelMessage(d, data)
        \/ RemoteClose(d)
        \/ ontrack(d)

\* ------------------------------------------------------------ ThreeAnimation
\* The loop of animate: avg += freqData[i] for every bin.
RECURSIVE SumBins(_, _)
SumBins(freqData, i) ==
    IF i > Len(freqData) THEN 0 ELSE freqData[i] + SumBins(freqData, i + 1)

\* avg = avg / freqData.length
Average(freqData) == Rat(SumBins(freqData, 1), Len(freqData))

\* Variant of the scale factor with the divisor of the vertex shader of
\* ThreeAnimation.jsx (u_frequency / 50.0).
ScaleFactor_div50(avg) == Rat(50 * avg.den + avg.num, 50 * avg.den)

\* const scaleFactor = 1 + avg / 200.0 (part_000 line 111, part_001 line 115)
ScaleFactor(avg) == Rat(200 * avg.den + avg.num, 200 * avg.den)

\* ThreeAnimation.jsx never calls mesh.scale.set; the two other revisions do.
SetsScale(v) == v # "ThreeAnimation.jsx"

\* One call of animate for the run that captured analyser an, whose mesh has
\* scale `scale`: u_frequency and the scale afterwards.
animate(an, freqData, uf, scale) ==
    IF an # Null
    THEN [uFrequency |-> Average(freqData),
          scale |-> IF SetsScale(variant) THEN ScaleFactor(Average(freqData)) ELSE scale]
    ELSE [uFrequency |-> uf, scale |-> IF SetsScale(variant) THEN One ELSE scale]

\* The cleanup returned by the effect: it removes the resize listener, disposes
\* of the renderer and removes the canvas.  The requestAnimationFrame handle was
\* never kept, so the queued animate stays queued.
cleanup(effs, sched, e) ==
    [effects |-> [effs EXCEPT ![e].cleaned = TRUE], scheduled |-> sched]

Current == Len(effects)

\* A display refresh runs the queued animate of run e, which first queues
\* itself again.
Animate(e) ==
    /\ e \in scheduled
    /\ \E freqData \in Buffers :
         LET r == animate(effects[e].analyzer, freqData, uFrequency, effects[e].scale)
         IN  /\ uFrequency' = r.uFrequency
             /\ effects' = [effects EXCEPT ![e].scale = r.scale]
             /\ frame' = [e |-> e,
                          freqData |-> IF effects[e].analyzer # Null THEN freqData
                                       ELSE <<>>]
    /\ scheduled' = scheduled \cup {e}
    /\ UNCHANGED <<appVars, variant, mounted>>

\* React re-runs the effect because the analyzer prop changed: the cleanup of
\* the previous run, then a new run (new renderer, scene and mesh of scale 1)
\* whose body ends with a first call of animate().
EffectAnalyzer ==
    /\ mounted
    /\ effects[Current].analyzer # analyzer
    /\ \E freqData \in Buffers :
         LET c == cleanup(effects, scheduled, Current)
             r == animate(analyzer, freqData, uFrequency, One)
         IN  /\ effects' = Append(c.effects, [analyzer |-> analyzer, cleaned |-> FALSE,
                                              scale |-> r.scale])
             /\ scheduled' = c.scheduled \cup {Current + 1}
             /\ uFrequency' = r.uFrequency
             /\ frame' = [e |-> Current + 1,
                          freqData |-> IF analyzer # Null THEN freqData ELSE <<>>]
    /\ UNCHANGED <<appVars, variant, mounted>>

\* The component is torn down: React runs the cleanup of the current run.
Unmount ==
    /\ mounted
    /\ mounted' = FALSE
    /\ LET c == cleanup(effects, scheduled, Current)
       IN  /\ effects' = c.effects
           /\ scheduled' = c.scheduled
    /\ UNCHANGED <<appVars, variant, uFrequency, frame>>

Visualization ==
    \/ \E e \in 1..(MaxTracks + 1) : Animate(e)
    \/ EffectAnalyzer
    \/ Unmount

\* The first call of startSession, when every await resolves.
FirstSession ==
    \/ startSession(1)
    \/ startSession_afterFetchToken(1)
    \/ startSession_afterJson(1, TRUE)
    \/ startSession_afterGetUserMedia(1)
    \/ startSession_afterCreateOffer(1)
    \/ startSession_afterSetLocalDescription(1)
    \/ startSession_afterPost(1)
    \/ startSession_afterText(1)
    \/ startSession_afterSetRemoteDescription(1)
    \/ ontrack(1)

Next == Bootstrap \/ Handlers \/ Channel

Spec == Init /\ [][Next]_vars

\* The visualization in each of its revisions, fed by the first session.
NextViz == FirstSession \/ Visualization

SpecViz == InitRevisions /\ [][NextViz]_vars

\* ======================================================================
\* Properties
\* ======================================================================
Range(q) == {q[k] : k \in 1..Len(q)}
IsPrefix(a, b) == Len(a) <= Len(b) /\ SubSeq(b, 1, Len(a)) = a
Outgoing(d) == SelectSeq(wire[d], LAMBDA w : w.dir = "out")
Crossed(d) == {w.data : w \in Range(wire[d])}
LoggedOn(d) == {Stringify(e.msg) : e \in {x \in Range(events) : x.via = d}}

\* C1: once stopSession has run and a startSession made before it has run to
\* its end, the peer connection and the data channel of that call are closed,
\* and when every call made so far precedes the stop, the data-channel handle,
\* the peer-connection handle and the active flag are null, null and false.
C1_StopClosesEverything ==
    \A i \in stopped :
        sess[i] = "done" =>
            /\ pcState[i] = "closed"
            /\ dcState[i] = "closed"
            /\ (\A j \in Sessions : j \in stopped \/ sess[j] = "idle") =>
                   /\ dataChannel = Null
                   /\ peerConnection = Null
                   /\ ~isSessionActive

\* C2: in an active session the messages recorded in the event log for the
\* held channel are exactly the messages that crossed that channel.
C2_LogEqualsTraffic ==
    \A d \in Sessions :
        (isSessionActive /\ dataChannel = d /\ dcState[d] = "open") =>
            LoggedOn(d) = Crossed(d)

\* C3 as stated: after a sendClientEvent that sent on the held channel, the sent
\* copy has the type and payload of the argument, a fresh identifier when the
\* argument had no event_id, and the argument's own event_id whenever it had one.
C3_IdOnlyIfAbsent ==
    (lastOp.op = "sendClientEvent" /\ lastOp.ch # Null /\ ~lastOp.threw) =>
        LET a == lastOp.arg
            w == wire[lastOp.ch]
            sent == Parse(w[Len(w)].data)
        IN  /\ sent.type = a.type
            /\ sent.payload = a.payload
            /\ a.event_id = Undefined => sent.event_id[1] = "uuid"
            /\ a.event_id # Undefined => sent.event_id = a.event_id

\* C3 amended: with a channel held, sendClientEvent keeps a truthy event_id and
\* replaces an absent or falsy one (undefined, "") by a fresh UUID, leaving type
\* and payload alone; when the channel is open the object is sent as it then is
\* and recorded first in the log, and when it is not open send throws and
\* nothing is sent.
C3_IdUnlessTruthy ==
    (lastOp.op = "sendClientEvent" /\ lastOp.ch # Null) =>
        LET a == lastOp.arg
            o == lastOp.obj
            w == wire[lastOp.ch]
        IN  /\ o.type = a.type
            /\ o.payload = a.payload
            /\ Truthy(a.event_id) => o.event_id = a.event_id
            /\ ~Truthy(a.event_id) =>
                   /\ o.event_id = Uuid(nextUuid)
                   /\ \A d \in Sessions : \A k \in 1..Len(wire[d]) :
                          Parse(wire[d][k].data).event_id = o.event_id =>
                              (d = lastOp.ch /\ k = Len(w) /\ ~lastOp.threw)
            /\ lastOp.threw = (dcState[lastOp.ch] # "open")
            /\ ~lastOp.threw =>
                   /\ w # <<>>
                   /\ w[Len(w)] = [dir |-> "out", data |-> Stringify(o)]
                   /\ Parse(w[Len(w)].data) = o
                   /\ events # <<>>
                   /\ events[1] = [msg |-> o, via |-> lastOp.ch]

\* A message with the empty string as event_id went out on an open channel.
C3_Witness ==
    /\ lastOp.op = "sendClientEvent"
    /\ lastOp.ch # Null
    /\ ~lastOp.threw
    /\ lastOp.arg.event_id = EmptyString
    /\ lastOp.obj.event_id = Uuid(nextUuid)

SendStep ==
    \/ \E message \in UiMessages : SendClientEvent(message)
    \/ \E text \in Texts : SendTextMessage(text)

\* C4: a sendClientEvent or sendTextMessage made while no data channel is held
\* writes to console.error and does not throw; nothing crosses any channel and
\* the event log, the flags, the handles and the connections stay as they were.
C4_NoChannelDrops ==
    [][(dataChannel = Null /\ SendStep) =>
           /\ lastOp'.errors > 0
           /\ ~lastOp'.threw
           /\ wire' = wire
           /\ events' = events
           /\ UNCHANGED <<isSessionActive, dataChannel, peerConnection, analyzer,
                          pcState, dcState>>]_vars

\* sendTextMessage ran with no channel held and wrote its two error lines.
C4_Witness ==
    /\ lastOp.op = "sendTextMessage"
    /\ lastOp.ch = Null
    /\ lastOp.errors = 2
    /\ dataChannel = Null

\* C5: a stopSession made while the data-channel handle is null leaves the peer
\* connection, the active flag, the event log and the analyser handle as they
\* were.
C5_StopWithoutChannelIsNoOp ==
    [][(dataChannel = Null /\ stopSession) =>
           UNCHANGED <<peerConnection, pcState, isSessionActive, events, analyzer>>]_vars

\* C6: while the session is active every entry of the event log was sent or
\* received on the held data channel.
C6_LogOnlyOwnChannel ==
    (isSessionActive /\ dataChannel # Null) =>
        \A e \in Range(events) : e.via = dataChannel

\* C7: no animate call of a run of the effect is made after the cleanup of
\* that run.
C7_NoTickAfterCleanup ==
    [][\A e \in DOMAIN effects : effects[e].cleaned => ~Animate(e)]_vars

\* The request a call of startSession was waiting for at a suspension point.
RequestOf(a) ==
    CASE a = "await_token" -> "GET /token"
      [] a = "await_json" -> "tokenResponse.json"
      [] a = "client_secret" -> "tokenResponse.json"
      [] a = "await_media" -> "getUserMedia"
      [] a = "await_offer" -> "createOffer"
      [] a = "await_local" -> "setLocalDescription"
      [] a = "await_post" -> "POST sdp"
      [] a = "await_text" -> "sdpResponse.text"
      [] a = "await_remote" -> "setRemoteDescription"

BootstrapOk(i) ==
    /\ IsPrefix(calls[i], BootstrapOrder)
    /\ failedAt[i] # "none" =>
           /\ sess[i] = "failed"
           /\ calls[i] # <<>>
           /\ calls[i][Len(calls[i])] = RequestOf(failedAt[i])
    /\ dcState[i] # "none" => "createDataChannel" \in Range(calls[i])
    /\ failedAt[i] = "await_media" =>
           /\ dcState[i] = "none"
           /\ i \notin listeners
           /\ "POST sdp" \notin Range(calls[i])
           /\ (\A j \in Sessions \ {i} : dcState[j] = "none") => ~isSessionActive

\* C8: a call of startSession issues its requests in the order token, json,
\* connection, microphone, data channel, offer, local description, POST, body,
\* remote description, each at most once and each only while no earlier one has
\* failed; the request that failed is the last one the call ever issues, a
\* finished call does nothing more, and a denied microphone leaves the call
\* without data channel and without POST, and the session inactive unless
\* another call made it active.
C8_SequentialBootstrap ==
    [][\A i \in Sessions :
           /\ BootstrapOk(i)'
           /\ IsPrefix(calls[i], calls'[i])
           /\ Len(calls'[i]) > Len(calls[i]) => sess[i] \in (Awaits \cup {"idle"})
           /\ sess[i] \in {"failed", "done"} =>
                  (sess'[i] = sess[i] /\ calls'[i] = calls[i] /\ failedAt'[i] = failedAt[i])]_vars

\* The microphone was denied to the first call.
C8_Witness ==
    /\ failedAt[1] = "await_media"
    /\ sess[1] = "failed"
    /\ calls[1][Len(calls[1])] = "getUserMedia"

AllBins(freqData, v) == \A k \in 1..Len(freqData) : freqData[k] = v
MaxScale == Rat(455, 200)

C10_UpdateFirst ==
    \A d \in Sessions :
        LET out == Outgoing(d)
        IN  /\ out # <<>> => Parse(out[1].data).type = "session.update"
            /\ Len(out) >= 2 => out[2].data = Stringify(greetingEvent)
            /\ \A k \in 1..Len(out) :
                   Parse(out[k].data).type = "response.create" => k > 1

\* A text message and its response.create went out after the two messages of
\* the 'open' listener.
C10_Witness ==
    \E d \in Sessions :
        LET out == Outgoing(d)
        IN  /\ Len(out) >= 4
            /\ Parse(out[3].data).type = "conversation.item.create"
            /\ Parse(out[4].data).type = "response.create"

\* C11: whenever the active flag is true a data channel is held and that
\* channel is open, and no sendClientEvent or sendTextMessage has called send
\* on a channel that was not open (the call would have thrown).
C11_ActiveImpliesOpenChannel ==
    /\ isSessionActive => (dataChannel # Null /\ dcState[dataChannel] = "open")
    /\ lastOp.op \in {"sendClientEvent", "sendTextMessage"} => ~lastOp.threw

\* C12: once the effect has caught up with the analyzer prop of a mounted
\* ThreeAnimation, exactly one animate chain is queued and it belongs to a run
\* that reads the current analyser.
C12_OneRenderLoop ==
    (mounted /\ effects[Current].analyzer = analyzer) =>
        /\ Cardinality(scheduled) = 1
        /\ \A e \in scheduled : effects[e].analyzer = analyzer

====
